---- MODULE Spec2Model ----
(***************************************************************************)
(* Model of the grocery-shopping pipeline: GroceryShoppingGraph.run drives *)
(* one ShoppingState record through the five agents in the order fixed by  *)
(* the compiled graph.  Each agent's execute() is an operator from the     *)
(* record and the collaborator responses it consumes to the new record.    *)
(*                                                                         *)
(* Conventions                                                             *)
(*   Optional values are sequences of length <= 1: None is <<>>, a present *)
(*   value v is <<v>>.                                                     *)
(*   Prices, budgets and totals are integers in cents.                     *)
(*   A text is a sequence of word tokens; " " stands for whitespace.       *)
(***************************************************************************)
EXTENDS Integers, Sequences, FiniteSets, TLC

VARIABLES
    state,          \* the ShoppingState record of the run
    node,           \* the graph node to execute next
    pc,             \* "invoke" inside graph.invoke, "returned" after run
    exc,            \* str(e) caught by run's except clause, or "none"
    dispatched,     \* the stage handlers dispatched so far, in order
    prev,           \* the record as the latest handler received it
    calls,          \* the collaborator calls the latest handler made
    loop_trace,     \* the list after each removal of the latest fitting
    use_real_store  \* ProductFinderAgent.use_real_store

vars == <<state, node, pc, exc, dispatched, prev, calls, loop_trace,
          use_real_store>>

(***************************************************************************)
(* Bounds of the model                                                     *)
(***************************************************************************)
MaxItems == 2

(***************************************************************************)
(* Generic helpers                                                         *)
(***************************************************************************)
None == <<>>

Some(v) == <<v>>

IsNone(o) == Len(o) = 0

Range(s) == {s[i] : i \in 1..Len(s)}

IsPrefix(s, t) == Len(s) <= Len(t) /\ s = SubSeq(t, 1, Len(s))

RECURSIVE SeqsUpTo(_, _)
SeqsUpTo(S, n) ==
    IF n = 0 THEN {<<>>}
    ELSE LET shorter == SeqsUpTo(S, n - 1)
         IN  shorter \cup {Append(s, x) : s \in shorter, x \in S}

\* str.strip(): drop leading and trailing whitespace tokens
RECURSIVE LStrip(_)
LStrip(t) == IF t # <<>> /\ Head(t) = " " THEN LStrip(Tail(t)) ELSE t

RECURSIVE RStrip(_)
RStrip(t) ==
    IF t # <<>> /\ t[Len(t)] = " " THEN RStrip(SubSeq(t, 1, Len(t) - 1)) ELSE t

Strip(t) == RStrip(LStrip(t))

(***************************************************************************)
(* state.py                                                                *)
(***************************************************************************)
StateFields ==
    {"user_request", "budget", "people_count", "plan", "recipe",
     "ingredients", "shopping_items", "total_cost", "final_list",
     "next_agent", "messages", "errors", "completed_agents"}

create_initial_state(user_request, budget, people_count) ==
    [user_request     |-> user_request,
     budget           |-> budget,
     people_count     |-> people_count,
     plan             |-> None,
     recipe           |-> None,
     ingredients      |-> <<>>,
     shopping_items   |-> <<>>,
     total_cost       |-> 0,
     final_list       |-> None,
     next_agent       |-> "planner",
     messages         |-> <<>>,
     errors           |-> <<>>,
     completed_agents |-> <<>>]

RECURSIVE SumPrices(_)
SumPrices(items) ==
    IF items = <<>> THEN 0
    ELSE Head(items).estimated_price + SumPrices(Tail(items))

(***************************************************************************)
(* agents/base_agent.py                                                    *)
(***************************************************************************)
\* A message "<name>: <action>"; nums carries the numbers formatted into it.
Msg(name, action, nums) == [agent |-> name, text |-> action, nums |-> nums]

\* An error "<name>: <error>"; detail is the str(e) formatted into it.
Err(name, error, detail) == [agent |-> name, text |-> error, detail |-> detail]

log_execution(st, name, action, nums) ==
    [st EXCEPT !.messages = Append(@, Msg(name, action, nums))]

handle_error(st, name, error, detail) ==
    [st EXCEPT !.errors = Append(@, Err(name, error, detail))]

mark_completed_prepend(st, name) ==
    IF name \notin Range(st.completed_agents)
    THEN [st EXCEPT !.completed_agents = <<name>> \o @]
    ELSE st

\* mark_completed without the membership test of line 39
mark_completed_again(st, name) ==
    [st EXCEPT !.completed_agents = Append(@, name)]

mark_completed(st, name) ==
    IF name \notin Range(st.completed_agents)
    THEN [st EXCEPT !.completed_agents = Append(@, name)]
    ELSE st

(***************************************************************************)
(* The Generator collaborator: llm.invoke(prompt) raises or returns a text *)
(***************************************************************************)
LLMRaise == [kind |-> "raise", body |-> <<>>]

LLMText(body) == [kind |-> "text", body |-> body]

(***************************************************************************)
(* agents/planner_agent.py                                                 *)
(***************************************************************************)
PlannerResponses == {LLMRaise, LLMText(<<" ", "make", "dinner", " ">>)}

\* A handler that counts a failed stage as completed
PlannerAgent_execute_complete_on_error(st, resp) ==
    LET s1 == log_execution(st, "planner", "Creating execution plan", <<>>)
    IN  IF resp.kind = "raise"
        THEN [mark_completed(
                handle_error(s1, "planner", "Failed to create plan", "llm"),
                "planner")
                EXCEPT !.next_agent = "error"]
        ELSE LET plan == Strip(resp.body)
                 s2 == [s1 EXCEPT !.plan = Some(plan), !.next_agent = "recipe"]
                 s3 == mark_completed(s2, "planner")
             IN  log_execution(s3, "planner", "Plan created", <<>>)

PlannerAgent_execute(st, resp) ==
    LET s1 == log_execution(st, "planner", "Creating execution plan", <<>>)
    IN  IF resp.kind = "raise"
        THEN [handle_error(s1, "planner", "Failed to create plan", "llm")
                EXCEPT !.next_agent = "error"]
        ELSE LET plan == Strip(resp.body)
                 s2 == [s1 EXCEPT !.plan = Some(plan), !.next_agent = "recipe"]
                 s3 == mark_completed(s2, "planner")
             IN  log_execution(s3, "planner", "Plan created", <<>>)

(***************************************************************************)
(* state.py: Recipe and its instructions validator                         *)
(* A string of instructions is a sequence of lines, a line a sequence of   *)
(* tokens.  A JSON instructions value is [tag, val] with tag "absent",     *)
(* "null", "str" (val: the lines) or "list" (val: the steps, one line      *)
(* each).                                                                  *)
(***************************************************************************)
NumberTokens == <<"1.", "2.", "3.", "4.", "5.">>

NumberedPrefixes == {"1.", "2.", "3.", "Step 1", "Step 2"}

PlaceholderValidator == <<<<"No instructions provided.">>>>

PlaceholderAgent == <<<<"No specific instructions provided.">>>>

\* item.strip().startswith(('1.', '2.', '3.', 'Step 1', 'Step 2'))
StartsNumbered(step) ==
    LET t == Strip(step) IN t # <<>> /\ Head(t) \in NumberedPrefixes

convert_instructions_to_string(v) ==
    CASE v.tag = "null" -> PlaceholderValidator
      [] v.tag = "list" ->
            IF Len(v.val) > 0
            THEN IF \E i \in 1..Len(v.val) : i <= 3 /\ StartsNumbered(v.val[i])
                 THEN v.val
                 ELSE [i \in 1..Len(v.val) |-> <<NumberTokens[i]>> \o v.val[i]]
            ELSE PlaceholderValidator
      [] OTHER -> v.val

\* Recipe(...): the validator runs on a supplied value only; an absent
\* instructions keeps the field default None
RecipeModel(name, ingredients, servings, instructions) ==
    [name         |-> name,
     ingredients  |-> ingredients,
     servings     |-> servings,
     instructions |-> IF instructions.tag = "absent" THEN None
                      ELSE Some(convert_instructions_to_string(instructions))]

(***************************************************************************)
(* agents/recipe_agent.py                                                  *)
(* First response body: [wrap, json] where wrap is "bare", "fence_json"    *)
(* (```json ... ```) or "fence" (``` ... ```), and json is                 *)
(* [type |-> "prose"], [type |-> "array"] or [type |-> "object", ...].     *)
(***************************************************************************)
Prose == [type |-> "prose"]

JsonArray == [type |-> "array"]

JsonObject(name, ingredients, servings, instructions) ==
    [type |-> "object", name |-> name, ingredients |-> ingredients,
     servings |-> servings, instructions |-> instructions]

\* Lines 70-79: strip the code fence, then json.loads.  Result: the JSON
\* value, or Prose when json.loads raises JSONDecodeError.
ExtractRecipeJson(body) ==
    CASE body.wrap = "fence_json" -> body.json
      [] body.wrap = "fence" ->
            \* slice from the first '{' to the last '}': only an object
            \* survives; otherwise the back-ticks stay in the text
            IF body.json.type = "object" THEN body.json ELSE Prose
      [] OTHER -> body.json

\* Lines 81-89 applied to a decoded JSON value.
\*   status "ok": a Recipe was built; "raise": an exception that the inner
\*   except clause (JSONDecodeError, TypeError, KeyError) does not catch.
BuildRecipe(j) ==
    IF j.type = "array"
    THEN [status |-> "raise", detail |-> "AttributeError"]
    ELSE LET ins1 == IF j.instructions.tag = "list"
                     THEN [tag |-> "str", val |-> j.instructions.val]
                     ELSE j.instructions
             ins2 == IF ins1.tag = "null"
                     THEN [tag |-> "str", val |-> PlaceholderAgent]
                     ELSE ins1
         IN  IF IsNone(j.name) \/ IsNone(j.ingredients) \/ IsNone(j.servings)
             THEN [status |-> "raise", detail |-> "ValidationError"]
             ELSE [status |-> "ok",
                   recipe |-> RecipeModel(j.name[1], j.ingredients[1],
                                          j.servings[1], ins2)]

\* Lines 144-160: the last line of each label wins
RECURSIVE SimpleField(_, _, _)
SimpleField(lines, label, default) ==
    IF lines = <<>> THEN default
    ELSE LET last == lines[Len(lines)]
         IN  IF last.label = label THEN last.value
             ELSE SimpleField(SubSeq(lines, 1, Len(lines) - 1), label, default)

\* _get_simple_recipe_format: status "ok" with the Recipe, or "raise"
\* (every failure is re-raised as one ValueError)
get_simple_recipe_format(st, resp) ==
    IF resp.kind = "raise" THEN [status |-> "raise"]
    ELSE LET recipe_name == SimpleField(resp.body, "RECIPE_NAME:", "")
             ingredients == SimpleField(resp.body, "INGREDIENTS:", <<>>)
             text        == SimpleField(resp.body, "INSTRUCTIONS:", <<>>)
             instructions == IF text = <<>> THEN PlaceholderAgent
                             ELSE <<text>>
         IN  IF recipe_name = "" \/ ingredients = <<>>
             THEN [status |-> "raise"]
             ELSE [status |-> "ok",
                   recipe |-> RecipeModel(recipe_name, ingredients,
                                 st.people_count,
                                 [tag |-> "str", val |-> instructions])]

\* TRUE iff the handler issues the second (fixed-label) Generator call
RecipeSecondCall(resp1) ==
    resp1.kind = "text" /\ ExtractRecipeJson(resp1.body).type = "prose"

\* The except clause of execute storing a hardcoded recipe instead of failing
RecipeFailSynthetic(st, detail) ==
    LET s1 == handle_error(st, "recipe",
                  "Failed to find recipe via Mistral API", detail)
        s2 == [s1 EXCEPT !.recipe = Some(RecipeModel("Simple Meal",
                                        <<"2 cups flour">>, st.people_count,
                                        [tag |-> "str", val |-> PlaceholderAgent])),
                         !.ingredients = <<"2 cups flour">>,
                         !.next_agent = "product_finder"]
    IN  mark_completed(s2, "recipe")

RecipeFail(st, detail) ==
    LET s1 == handle_error(st, "recipe",
                  "Failed to find recipe via Mistral API", detail)
        s2 == [s1 EXCEPT !.next_agent = "error"]
    IN  [s2 EXCEPT !.errors = Append(@,
            Err("", "Recipe agent requires working Mistral API connection", ""))]

\* Lines 99-109 without the check of line 100
RecipeStoreUnvalidated(st, recipe) ==
    LET s1 == [st EXCEPT !.recipe = Some(recipe),
                         !.ingredients = recipe.ingredients,
                         !.next_agent = "product_finder"]
        s2 == mark_completed(s1, "recipe")
    IN  log_execution(s2, "recipe", "Recipe found",
                      <<Len(recipe.ingredients)>>)

RecipeStore(st, recipe) ==
    IF recipe.name = "" \/ recipe.ingredients = <<>>
    THEN RecipeFail(st, "Recipe missing required fields")
    ELSE LET s1 == [st EXCEPT !.recipe = Some(recipe),
                              !.ingredients = recipe.ingredients,
                              !.next_agent = "product_finder"]
             s2 == mark_completed(s1, "recipe")
         IN  log_execution(s2, "recipe", "Recipe found",
                           <<Len(recipe.ingredients)>>)

RecipeAgent_execute(st, resp1, resp2) ==
    LET s1 == log_execution(st, "recipe",
                  "Finding suitable recipe via Mistral API", <<>>)
    IN  IF resp1.kind = "raise" THEN RecipeFail(s1, "llm")
        ELSE LET j == ExtractRecipeJson(resp1.body)
             IN  IF j.type = "prose"
                 THEN LET simple == get_simple_recipe_format(s1, resp2)
                      IN  IF simple.status = "raise"
                          THEN RecipeFail(s1, "Mistral API connection required for recipe generation")
                          ELSE RecipeStore(s1, simple.recipe)
                 ELSE LET built == BuildRecipe(j)
                      IN  IF built.status = "raise"
                          THEN RecipeFail(s1, built.detail)
                          ELSE RecipeStore(
                                 log_execution(s1, "recipe",
                                     "Successfully parsed recipe", <<>>),
                                 built.recipe)

(***************************************************************************)
(* state.py: ShoppingItem.  A name is a sequence of words.                 *)
(***************************************************************************)
ShoppingItem(name, quantity, estimated_price, category) ==
    [name            |-> name,
     quantity        |-> quantity,
     estimated_price |-> estimated_price,
     category        |-> category,
     from_walmart    |-> FALSE]

\* str.lower() on the words that occur in names
Lower(w) ==
    CASE w = "Beef"    -> "beef"
      [] w = "BEEF"    -> "beef"
      [] w = "Organic" -> "organic"
      [] w = "Premium" -> "premium"
      [] w = "Finalizer" -> "finalizer"
      [] OTHER         -> w

(***************************************************************************)
(* agents/product_finder_agent.py                                          *)
(***************************************************************************)
\* The lower-cased words of each ingredient phrase the recipes use
IngredientWords(ingredient) ==
    CASE ingredient = "1 lb ground beef" -> {"1", "lb", "ground", "beef"}
      [] ingredient = "2 cups milk"      -> {"2", "cups", "milk"}
      [] ingredient = "1 loaf bread"     -> {"1", "loaf", "bread"}
      [] ingredient = "2 cups flour"     -> {"2", "cups", "flour"}
      [] OTHER                           -> {}

categorize_ingredient(ingredient) ==
    LET has(words) == IngredientWords(ingredient) \cap words # {}
    IN  CASE has({"beef", "chicken", "pork", "fish", "turkey", "meat", "salmon"})
                -> "meat"
          [] has({"milk", "cheese", "yogurt", "butter", "cream", "dairy"})
                -> "dairy"
          [] has({"apple", "banana", "tomato", "onion", "lettuce", "carrot", "potato"})
                -> "produce"
          [] has({"bread", "bagel", "roll", "bun", "bakery"}) -> "bakery"
          [] has({"frozen", "ice cream", "popsicle"}) -> "frozen"
          [] has({"deli", "sliced", "ham", "turkey slice"}) -> "deli"
          [] OTHER -> "pantry"

\* _walmart_result_to_shopping_item: None without a title, without a
\* parseable price or with a price <= 0 (an absent price is 0.0)
walmart_result_to_shopping_item(walmart_item, original_ingredient) ==
    LET name  == Strip(walmart_item.title)
        price == IF walmart_item.price.tag = "absent" THEN 0
                 ELSE walmart_item.price.val
    IN  IF name = <<>> THEN None
        ELSE IF walmart_item.price.tag = "garbled" THEN None
        ELSE IF price <= 0 THEN None
        ELSE Some(ShoppingItem(name,
                     IF IsNone(walmart_item.size) THEN "1 unit"
                     ELSE walmart_item.size[1],
                     price, categorize_ingredient(original_ingredient)))

\* Lines 268-283 and 387-404: one "PRODUCT: | QUANTITY: | PRICE: | CATEGORY:"
\* line.  None when the labels are missing, a part is missing (IndexError)
\* or the price is not a number (ValueError).
ParseProductLine(line) ==
    IF ~line.labelled THEN None
    ELSE IF line.nparts < 4 THEN None
    ELSE IF IsNone(line.price) THEN None
    ELSE Some(ShoppingItem(Strip(line.product), line.quantity,
                           line.price[1], line.category))

get_mistral_fallback_item(ingredient, resp) ==
    IF resp.kind = "raise" THEN None ELSE ParseProductLine(resp.body)

\* _search_walmart_product: the top results, or None; a 401 clears
\* use_real_store
SearchResults(search) ==
    IF search.status = 200 /\ search.results # <<>>
    THEN Some(SubSeq(search.results, 1, 1)) ELSE None

\* A 401 that leaves self.use_real_store as it was
FlagAfterSearchKept(search, flag) == flag

\* Lines 185-188: self.use_real_store after a search
FlagAfterSearch(search, flag) ==
    IF search.status = 401 THEN FALSE ELSE flag

\* The record of a call made by the product finder: whom it called, the
\* status or kind of the answer and the number of line items made from it
SearchCall(search, n) ==
    [to |-> "search", resp |-> [status |-> search.status], items |-> n]

MappingCall(resp, n) ==
    [to |-> "llm", resp |-> [kind |-> resp.kind], items |-> n]

\* _get_walmart_products over the first k ingredients; script[i] holds the
\* collaborator responses for ingredient i.  Returns the items, the calls
\* made and the value left in self.use_real_store.  The assignment
\* item._from_walmart = True is taken to succeed, as it does for an
\* underscore name on a pydantic 2 model.
RECURSIVE get_walmart_products(_, _, _, _)
get_walmart_products(ingredients, script, k, urs) ==
    IF k = 0 THEN [items |-> <<>>, calls |-> <<>>, use_real_store |-> urs]
    ELSE
      LET before  == get_walmart_products(ingredients, script, k - 1, urs)
          ing     == ingredients[k]
          search  == script[k].search
          found   == SearchResults(search)
          flag    == FlagAfterSearch(search, before.use_real_store)
          item    == IF IsNone(found) THEN None
                     ELSE walmart_result_to_shopping_item(found[1][1], ing)
          fb      == get_mistral_fallback_item(ing, script[k].fallback)
          scall   == SearchCall(search, Len(item))
          fcall   == MappingCall(script[k].fallback, Len(fb))
      IN  IF ~IsNone(item)
          THEN [items |-> Append(before.items,
                             [item[1] EXCEPT !.from_walmart = TRUE]),
                calls |-> Append(before.calls, scall),
                use_real_store |-> flag]
          ELSE [items |-> before.items \o fb,
                calls |-> before.calls \o <<scall, fcall>>,
                use_real_store |-> flag]

\* Lines 346-353: ShoppingItem(**item_data), skipping what fails validation
RECURSIVE ItemsFromJson(_)
ItemsFromJson(elems) ==
    IF elems = <<>> THEN <<>>
    ELSE LET d == Head(elems)
             rest == ItemsFromJson(Tail(elems))
         IN  IF IsNone(d.estimated_price) \/ IsNone(d.name) THEN rest
             ELSE <<ShoppingItem(d.name[1], d.quantity, d.estimated_price[1],
                       IF IsNone(d.category) THEN "general"
                       ELSE d.category[1])>> \o rest

RECURSIVE ItemsFromLines(_)
ItemsFromLines(lines) ==
    IF lines = <<>> THEN <<>>
    ELSE ParseProductLine(Head(lines)) \o ItemsFromLines(Tail(lines))

\* _try_simple_format giving up as soon as one line fails to parse
try_simple_format_strict(resp) ==
    IF resp.kind = "raise" THEN [status |-> "raise", items |-> <<>>]
    ELSE LET shopping_items == ItemsFromLines(resp.body)
         IN  IF Len(shopping_items) < Len(resp.body) \/ shopping_items = <<>>
             THEN [status |-> "raise", items |-> <<>>]
             ELSE [status |-> "ok", items |-> shopping_items]

\* _try_simple_format: the items, or "raise"
try_simple_format(resp) ==
    IF resp.kind = "raise" THEN [status |-> "raise", items |-> <<>>]
    ELSE LET shopping_items == ItemsFromLines(resp.body)
         IN  IF shopping_items = <<>>
             THEN [status |-> "raise", items |-> <<>>]
             ELSE [status |-> "ok", items |-> shopping_items]

\* Lines 331-341: strip the code fence, then json.loads.  In a plain fence
\* only the slice from '[' to ']' is kept, so only an array survives.
ExtractProductsJson(body) ==
    CASE body.wrap = "fence_json" -> body.json
      [] body.wrap = "fence" ->
            IF body.json.type = "array" THEN body.json ELSE Prose
      [] OTHER -> body.json

\* TRUE iff _api_based_mapping goes on to _try_simple_format
MappingSecondCall(resp1) ==
    resp1.kind = "text" /\ ExtractProductsJson(resp1.body).type = "prose"

\* _api_based_mapping: the items, or "raise" (ValueError)
api_based_mapping(resp1, resp2) ==
    IF resp1.kind = "raise"
    THEN [status |-> "raise", items |-> <<>>,
          calls |-> <<MappingCall(resp1, 0)>>]
    ELSE LET j == ExtractProductsJson(resp1.body)
             c1 == <<MappingCall(resp1,
                        IF j.type = "array" THEN Len(ItemsFromJson(j.elems))
                        ELSE 0)>>
         IN  CASE j.type = "prose" ->
                    LET simple == try_simple_format(resp2)
                        made   == IF resp2.kind = "text"
                                  THEN Len(ItemsFromLines(resp2.body)) ELSE 0
                    IN  [status |-> simple.status, items |-> simple.items,
                         calls |-> c1 \o <<MappingCall(resp2, made)>>]
               [] j.type = "array" ->
                    LET shopping_items == ItemsFromJson(j.elems)
                    IN  IF shopping_items = <<>>
                        THEN [status |-> "raise", items |-> <<>>, calls |-> c1]
                        ELSE [status |-> "ok", items |-> shopping_items,
                              calls |-> c1]
               [] OTHER -> [status |-> "raise", items |-> <<>>, calls |-> c1]

\* The except clause of execute pricing every ingredient by rule instead of
\* failing
ProductFinderFailRuleBased(st, detail) ==
    LET s1 == handle_error(st, "product_finder", "Failed to map products",
                           detail)
        shopping_items ==
            [i \in 1..Len(st.ingredients) |->
                ShoppingItem(<<st.ingredients[i]>>, "1 unit", 299,
                             categorize_ingredient(st.ingredients[i]))]
        s2 == [s1 EXCEPT !.shopping_items = shopping_items,
                         !.total_cost = SumPrices(shopping_items),
                         !.next_agent = "budgeting"]
    IN  mark_completed(s2, "product_finder")

ProductFinderFail(st, detail) ==
    LET s1 == handle_error(st, "product_finder", "Failed to map products",
                           detail)
        s2 == [s1 EXCEPT !.next_agent = "error"]
    IN  [s2 EXCEPT !.errors = Append(@,
            Err("", "Product finder failed - check API connections", ""))]

ProductFinderStore(st, shopping_items) ==
    LET s1 == [st EXCEPT !.shopping_items = shopping_items,
                         !.total_cost = SumPrices(shopping_items),
                         !.next_agent = "budgeting"]
        s2 == mark_completed(s1, "product_finder")
    IN  log_execution(s2, "product_finder", "Mapped products",
                      <<Len(shopping_items), s1.total_cost>>)

\* Lines 72-76 with an empty ingredient list counted as a finished mapping
ProductFinderNoIngredientsDone(st) ==
    mark_completed([st EXCEPT !.next_agent = "budgeting"], "product_finder")

\* Lines 72-76: nothing to map
ProductFinderNoIngredients(st) ==
    [handle_error(st, "product_finder", "No ingredients found to map", "")
       EXCEPT !.next_agent = "error"]

\* Line 70: the first message names the value of self.use_real_store
MappingMessage(urs) ==
    IF urs THEN "Mapping ingredients to products (SerpAPI: True)"
    ELSE "Mapping ingredients to products (SerpAPI: False)"

\* execute: returns the record, the calls made and self.use_real_store
ProductFinderAgent_execute(st, urs, script, resp1, resp2) ==
    LET s1 == log_execution(st, "product_finder", MappingMessage(urs), <<>>)
        ingredients == st.ingredients
    IN  IF ingredients = <<>>
        THEN [st |-> ProductFinderNoIngredients(s1),
              calls |-> <<>>, use_real_store |-> urs]
        ELSE
          LET walmart == IF urs
                         THEN get_walmart_products(ingredients, script,
                                                   Len(ingredients), urs)
                         ELSE [items |-> <<>>, calls |-> <<>>,
                               use_real_store |-> urs]
              mapped  == api_based_mapping(resp1, resp2)
          IN  IF urs /\ walmart.items # <<>>
              THEN [st |-> ProductFinderStore(
                              log_execution(s1, "product_finder",
                                  "Found products via Walmart",
                                  <<Len(walmart.items)>>),
                              walmart.items),
                    calls |-> walmart.calls,
                    use_real_store |-> walmart.use_real_store]
              ELSE [st |-> IF mapped.status = "raise"
                           THEN ProductFinderFail(s1, "Mistral API required for product mapping")
                           ELSE ProductFinderStore(s1, mapped.items),
                    calls |-> walmart.calls \o mapped.calls,
                    use_real_store |-> walmart.use_real_store]

(***************************************************************************)
(* agents/budgeting_agent.py                                               *)
(***************************************************************************)
BeefPrice == 599

\* sorted(items, key=price, reverse=True): stable, equal prices keep their
\* original relative order
RECURSIVE InsertDesc(_, _)
InsertDesc(sorted, x) ==
    IF sorted = <<>> THEN <<x>>
    ELSE IF Head(sorted).estimated_price >= x.estimated_price
         THEN <<Head(sorted)>> \o InsertDesc(Tail(sorted), x)
         ELSE <<x>> \o sorted

RECURSIVE SortDesc(_)
SortDesc(items) ==
    IF items = <<>> THEN <<>>
    ELSE InsertDesc(SortDesc(SubSeq(items, 1, Len(items) - 1)),
                    items[Len(items)])

\* list.pop(i) taking the next item along with item i
RemoveAtTwo(s, i) == SubSeq(s, 1, i - 1) \o SubSeq(s, i + 2, Len(s))

RemoveAt(s, i) == SubSeq(s, 1, i - 1) \o SubSeq(s, i + 1, Len(s))

\* The scan of lines 113-118 taking the last item whose removal fits
PopIndexLast(items, current_total, budget) ==
    LET fits == {i \in 1..Len(items) :
                    current_total - items[i].estimated_price <= budget}
    IN  IF fits # {} THEN CHOOSE i \in fits : \A k \in fits : i >= k
        ELSE 1

\* The for/else of lines 113-124: the index popped by one iteration
PopIndex(items, current_total, budget) ==
    LET fits == {i \in 1..Len(items) :
                    current_total - items[i].estimated_price <= budget}
    IN  IF fits # {} THEN CHOOSE i \in fits : \A k \in fits : i <= k
        ELSE 1

\* The while loop of lines 111-124; trace lists the list after each pop
RECURSIVE RemovalLoop(_, _, _, _)
RemovalLoop(items, current_total, budget, trace) ==
    IF current_total > budget /\ items # <<>>
    THEN LET i    == PopIndex(items, current_total, budget)
             rest == RemoveAt(items, i)
         IN  RemovalLoop(rest, current_total - items[i].estimated_price,
                         budget, Append(trace, rest))
    ELSE [items |-> items, current_total |-> current_total, trace |-> trace]

NameHas(name, expensive) == \E i \in 1..Len(name) : Lower(name[i]) = expensive

\* str.replace(old, new) on the words of a name
ReplaceWord(name, old, new) ==
    [i \in 1..Len(name) |-> IF name[i] = old THEN new ELSE name[i]]

\* price * 0.7 and price * 0.8 in cents (exact for multiples of 10)
Discount(price, tenths) == (price * tenths) \div 10

\* One item through the substitution table: the first matching rule only
SubstituteItem(item) ==
    CASE NameHas(item.name, "beef") ->
            [item EXCEPT !.estimated_price = BeefPrice,
                         !.name = ReplaceWord(@, "Beef", "Chicken")]
      [] NameHas(item.name, "organic") ->
            [item EXCEPT !.estimated_price = Discount(@, 7),
                         !.name = ReplaceWord(@, "Organic", "Regular")]
      [] NameHas(item.name, "premium") ->
            [item EXCEPT !.estimated_price = Discount(@, 8),
                         !.name = ReplaceWord(@, "Premium", "Standard")]
      [] OTHER -> item

substitute_cheaper_alternatives(items, remaining_budget) ==
    [i \in 1..Len(items) |-> SubstituteItem(items[i])]

\* Lines 106-124: the sort and the removal loop
FitToBudget(items, budget) ==
    LET sorted_items == SortDesc(items)
    IN  RemovalLoop(sorted_items, SumPrices(sorted_items), budget, <<>>)

optimize_for_budget(items, budget) ==
    LET fitted == FitToBudget(items, budget)
    IN  substitute_cheaper_alternatives(fitted.items,
                                        budget - fitted.current_total)

\* Line 60 with the list optimised whenever a budget is present
OverBudgetAlways(total_cost, budget) == TRUE

\* Line 60: "if total_cost > budget"
OverBudget(total_cost, budget) == total_cost > budget

\* "if not budget": None and 0 are both falsy
NoBudget(budget) == IsNone(budget) \/ budget[1] = 0

\* Lines 62-64 with the total left as it was
StoreOptimizedStaleTotal(st, optimized_items) ==
    [st EXCEPT !.shopping_items = optimized_items]

\* Lines 62-64
StoreOptimized(st, optimized_items) ==
    [st EXCEPT !.shopping_items = optimized_items,
               !.total_cost = SumPrices(optimized_items)]

\* The except clause of execute putting back the list it received
BudgetingFailRollback(fitted, received) ==
    [handle_error(fitted, "budgeting", "Budget analysis failed", "llm")
       EXCEPT !.shopping_items = received.shopping_items,
              !.total_cost = received.total_cost,
              !.next_agent = "finalizer"]

\* The except clause of execute recording no error
BudgetingFailSilent(fitted, received) ==
    [fitted EXCEPT !.next_agent = "finalizer"]

\* Lines 88-90: the except clause of execute, reached with the record as
\* the try block left it
BudgetingFail(fitted, received) ==
    [handle_error(fitted, "budgeting", "Budget analysis failed", "llm")
       EXCEPT !.next_agent = "finalizer"]

BudgetingAgent_execute(st, resp) ==
    LET s1 == log_execution(st, "budgeting", "Analyzing budget constraints",
                            <<>>)
    IN  IF NoBudget(st.budget)
        THEN log_execution(
               mark_completed([s1 EXCEPT !.next_agent = "finalizer"],
                              "budgeting"),
               "budgeting",
               "No budget specified, proceeding without optimization", <<>>)
        ELSE
          LET budget == st.budget[1]
              s2 == IF OverBudget(st.total_cost, budget)
                    THEN LET s == StoreOptimized(s1,
                                     optimize_for_budget(st.shopping_items,
                                                         budget))
                         IN  log_execution(s, "budgeting", "Optimized list",
                                           <<s.total_cost, st.total_cost>>)
                    ELSE log_execution(s1, "budgeting", "Within budget",
                                       <<budget - st.total_cost>>)
          IN  IF resp.kind = "raise"
              THEN BudgetingFail(s2, st)
              ELSE mark_completed(
                     [s2 EXCEPT !.messages =
                                    Append(@, Msg("", "Budget Analysis", <<>>)),
                                !.next_agent = "finalizer"],
                     "budgeting")

\* TRUE iff the handler reaches the fitting algorithm
BudgetingFits(st) ==
    ~NoBudget(st.budget) /\ OverBudget(st.total_cost, st.budget[1])

(***************************************************************************)
(* agents/finalizer_agent.py                                               *)
(* A final list is [kind, text, lines, total, note]: kind "empty" is the   *)
(* fixed "No items found" sentence, "llm" the Generator's text, "fallback" *)
(* the SHOPPING LIST text with one line per item, the total and the budget *)
(* annotation.                                                             *)
(***************************************************************************)
FinalList(kind, text, lines, total, note) ==
    [kind |-> kind, text |-> text, lines |-> lines, total |-> total,
     note |-> note]

\* "{i}. {name} ({quantity}) - ${price:.2f}"
FallbackLine(i, item) ==
    [index |-> i, name |-> item.name, quantity |-> item.quantity,
     price |-> item.estimated_price]

\* _create_fallback_list without the item lines
create_fallback_list_header_only(st) ==
    FinalList("fallback", <<"SHOPPING LIST">>, <<>>, Some(st.total_cost), "")

create_fallback_list(st) ==
    LET items == st.shopping_items
        total_cost == st.total_cost
    IN  IF items # <<>>
        THEN FinalList("fallback", <<"SHOPPING LIST">>,
                 [i \in 1..Len(items) |-> FallbackLine(i, items[i])],
                 Some(total_cost),
                 IF ~NoBudget(st.budget)
                 THEN IF total_cost <= st.budget[1] THEN "Within budget"
                      ELSE "Over budget"
                 ELSE "")
        ELSE FinalList("fallback", <<"SHOPPING LIST">>, <<>>, None,
                       "No items to display.")

\* _organize_by_category with the group of a new category put first
RECURSIVE organize_by_category_newest_first(_)
organize_by_category_newest_first(items) ==
    IF items = <<>> THEN <<>>
    ELSE LET categories == organize_by_category_newest_first(
                               SubSeq(items, 1, Len(items) - 1))
             item == items[Len(items)]
             seen == {g \in 1..Len(categories) :
                         categories[g].category = item.category}
         IN  IF seen = {}
             THEN <<[category |-> item.category, items |-> <<item>>]>>
                      \o categories
             ELSE [categories EXCEPT
                     ![CHOOSE g \in seen : TRUE].items = Append(@, item)]

\* _organize_by_category, lines 89-97: the dict as the sequence of its
\* entries in insertion order
RECURSIVE organize_by_category(_)
organize_by_category(items) ==
    IF items = <<>> THEN <<>>
    ELSE LET categories == organize_by_category(
                               SubSeq(items, 1, Len(items) - 1))
             item == items[Len(items)]
             seen == {g \in 1..Len(categories) :
                         categories[g].category = item.category}
         IN  IF seen = {}
             THEN Append(categories,
                         [category |-> item.category, items |-> <<item>>])
             ELSE [categories EXCEPT
                     ![CHOOSE g \in seen : TRUE].items = Append(@, item)]

FinalizerAgent_execute(st, resp) ==
    LET s1 == log_execution(st, "finalizer", "Creating final shopping list",
                            <<>>)
        done(final_list) ==
            log_execution(
                mark_completed([s1 EXCEPT !.final_list = Some(final_list),
                                          !.next_agent = "complete"],
                               "finalizer"),
                "finalizer", "Final shopping list created", <<>>)
    IN  IF st.shopping_items = <<>>
        THEN done(FinalList("empty",
                      <<"No items found for shopping list.">>, <<>>, None, ""))
        ELSE IF resp.kind = "raise"
        THEN LET s2 == handle_error(s1, "finalizer",
                           "Failed to create final list", "llm")
             IN  [s2 EXCEPT !.final_list = Some(create_fallback_list(s2)),
                            !.next_agent = "complete"]
        ELSE done(FinalList("llm", Strip(resp.body), <<>>, None, ""))

(***************************************************************************)
(* What the collaborators may answer                                       *)
(***************************************************************************)
Instr(tag, val) == [tag |-> tag, val |-> val]

RecipeBody(wrap, json) == LLMText([wrap |-> wrap, json |-> json])

BeefAndMilk == <<"1 lb ground beef", "2 cups milk">>

RecipeFirstResponses ==
    {LLMRaise,
     RecipeBody("bare", Prose),
     RecipeBody("bare", [type |-> "array", elems |-> <<>>]),
     RecipeBody("bare", JsonObject(Some("Chili"), Some(BeefAndMilk), None,
                                   Instr("str", <<<<"Simmer">>>>))),
     RecipeBody("bare", JsonObject(Some(""), Some(BeefAndMilk), Some(4),
                                   Instr("absent", <<>>))),
     RecipeBody("fence", JsonObject(Some("Toast"), Some(<<>>), Some(4),
                                    Instr("null", <<>>))),
     RecipeBody("fence_json",
                JsonObject(Some("Chili"), Some(BeefAndMilk), Some(4),
                           Instr("list", <<<<"Brown">>, <<"Simmer">>>>))),
     RecipeBody("fence", JsonObject(Some("Toast"), Some(<<"1 loaf bread">>),
                                    Some(4), Instr("null", <<>>)))}

SimpleLine(label, value) == [label |-> label, value |-> value]

RecipeSimpleResponses ==
    {LLMRaise,
     LLMText(<<SimpleLine("other", <<>>)>>),
     LLMText(<<SimpleLine("INGREDIENTS:", <<"2 cups flour">>)>>),
     LLMText(<<SimpleLine("RECIPE_NAME:", "Pancakes"),
               SimpleLine("INSTRUCTIONS:", <<"Fry">>)>>),
     LLMText(<<SimpleLine("RECIPE_NAME:", "Pancakes"),
               SimpleLine("INGREDIENTS:", <<"">>)>>),
     LLMText(<<SimpleLine("RECIPE_NAME:", "Pancakes"),
               SimpleLine("INGREDIENTS:", <<"2 cups flour", "2 cups milk">>),
               SimpleLine("INSTRUCTIONS:", <<"Fry">>)>>)}

\* The products the Generator may name: <<name, quantity, price, category>>
Bread == <<<<"Bread">>, "1 loaf", 300, "bakery">>

Catalog ==
    {<<<<"Ribeye", "Steak">>, "1 lb", 2000, "meat">>,
     <<<<"Beef", "Broth">>, "32 oz", 200, "pantry">>,
     <<<<"Organic", "Milk">>, "1 gallon", 1000, "dairy">>,
     Bread,
     <<<<"Bottle", "Refund">>, "1 unit", -100, "general">>}

JsonElem(c) ==
    [name |-> Some(c[1]), quantity |-> c[2], estimated_price |-> Some(c[3]),
     category |-> Some(c[4])]

InvalidJsonElem ==
    [name |-> Some(<<"Salt">>), quantity |-> "1 box", estimated_price |-> None,
     category |-> None]

JsonElems == {JsonElem(c) : c \in Catalog} \cup {InvalidJsonElem}

ProductLine(c) ==
    [labelled |-> TRUE, nparts |-> 4, product |-> <<" ">> \o c[1] \o <<" ">>,
     quantity |-> c[2], price |-> Some(c[3]), category |-> c[4]]

Unlabelled ==
    [labelled |-> FALSE, nparts |-> 1, product |-> <<>>, quantity |-> "",
     price |-> None, category |-> ""]

BadPrice ==
    [labelled |-> TRUE, nparts |-> 4, product |-> <<"Salt">>,
     quantity |-> "1 box", price |-> None, category |-> "pantry"]

MissingPart ==
    [labelled |-> TRUE, nparts |-> 3, product |-> <<"Salt">>,
     quantity |-> "1 box", price |-> Some(100), category |-> ""]

ProductLines == {ProductLine(Bread), BadPrice}

MappingFirstResponses ==
    {LLMRaise,
     LLMText([wrap |-> "bare", json |-> Prose]),
     LLMText([wrap |-> "fence", json |-> [type |-> "object"]]),
     LLMText([wrap |-> "bare", json |-> [type |-> "object"]]),
     LLMText([wrap |-> "fence", json |->
                [type |-> "array",
                 elems |-> <<JsonElem(Bread)>>]])}
    \cup {LLMText([wrap |-> "fence_json",
                    json |-> [type |-> "array", elems |-> e]]) :
            e \in SeqsUpTo(JsonElems, MaxItems)}

MappingSimpleResponses ==
    {LLMRaise, LLMText(<<Unlabelled>>), LLMText(<<MissingPart>>),
     LLMText(<<ProductLine(<<<<"Beef", "Broth">>, "32 oz", 200, "pantry">>),
               Unlabelled, ProductLine(Bread)>>)}
    \cup {LLMText(l) : l \in SeqsUpTo(ProductLines, MaxItems)}

WalmartPrice(tag, val) == [tag |-> tag, val |-> val]

SearchOutcomes ==
    {[status |-> 401, results |-> <<>>],
     [status |-> 429, results |-> <<>>],
     [status |-> 200, results |->
        <<[title |-> <<"Great", "Value", "Beef">>,
           price |-> WalmartPrice("num", 700), size |-> Some("16 oz")]>>],
     [status |-> 200, results |->
        <<[title |-> <<"Marketside", "Item">>,
           price |-> WalmartPrice("absent", 0), size |-> None]>>]}

FallbackResponses ==
    {LLMRaise,
     LLMText(ProductLine(Bread)),
     LLMText(Unlabelled)}

\* The fallback answer matters only when the search gave no item
WalmartSteps ==
    {s \in [search : SearchOutcomes, fallback : FallbackResponses] :
        (s.search.status = 200 /\ s.search.results # <<>>
            /\ s.search.results[1].price.tag = "num")
        => s.fallback = LLMRaise}

WalmartScripts(n) == [1..n -> WalmartSteps]

TextResponses == {LLMRaise, LLMText(<<" ", "text", " ">>)}

Budgets == {None, Some(0), Some(-100), Some(250), Some(2500)}

GraphErrors == {"rate limit", "api", "other"}

(***************************************************************************)
(* graph.py                                                                *)
(***************************************************************************)
recursion_limit == 15

agent_sequence ==
    <<"planner", "recipe", "product_finder", "budgeting", "finalizer">>

END == "__end__"

RECURSION == "__recursion__"

\* The edges with product_finder wired straight to finalizer
EdgeSkipsBudgeting(n) ==
    CASE n = "planner"        -> "recipe"
      [] n = "recipe"         -> "product_finder"
      [] n = "product_finder" -> "finalizer"
      [] OTHER                -> END

\* _build_graph, lines 51-57: the edges
Edge(n) ==
    CASE n = "planner"        -> "recipe"
      [] n = "recipe"         -> "product_finder"
      [] n = "product_finder" -> "budgeting"
      [] n = "budgeting"      -> "finalizer"
      [] OTHER                -> END

\* A product finder that is run again for as long as the record holds no
\* ingredients, with no ceiling on the number of steps
NextNodeRetry(n, st, steps) ==
    IF n = "product_finder" /\ st.ingredients = <<>>
    THEN "product_finder" ELSE Edge(n)

\* graph.invoke: the node after n, once `steps` nodes have run and n has
\* returned st; more work at the recursion limit is a GraphRecursionError
NextNode(n, st, steps) ==
    IF Edge(n) # END /\ steps >= recursion_limit THEN RECURSION ELSE Edge(n)

\* One node of the graph: handler n turned the record into st making calls c
Runnable(n) == pc = "invoke" /\ node = n

Dispatch(n, st, c, trace, urs) ==
    /\ state' = st
    /\ prev' = state
    /\ calls' = c
    /\ loop_trace' = trace
    /\ use_real_store' = urs
    /\ dispatched' = Append(dispatched, n)
    /\ node' = NextNode(n, st, Len(dispatched) + 1)
    /\ UNCHANGED <<pc, exc>>

LLMCall(resp) == [to |-> "llm", resp |-> resp]

planner_node ==
    /\ Runnable("planner")
    /\ \E resp \in PlannerResponses :
        Dispatch("planner", PlannerAgent_execute(state, resp),
                 <<LLMCall(resp)>>, <<>>, use_real_store)

recipe_node ==
    /\ Runnable("recipe")
    /\ \E resp1 \in RecipeFirstResponses :
        IF RecipeSecondCall(resp1)
        THEN \E resp2 \in RecipeSimpleResponses :
                Dispatch("recipe", RecipeAgent_execute(state, resp1, resp2),
                         <<LLMCall(resp1), LLMCall(resp2)>>, <<>>,
                         use_real_store)
        ELSE Dispatch("recipe", RecipeAgent_execute(state, resp1, LLMRaise),
                      <<LLMCall(resp1)>>, <<>>, use_real_store)

\* TRUE iff execute goes on to _api_based_mapping
ProductFinderMaps(st, urs, script) ==
    /\ st.ingredients # <<>>
    /\ urs => get_walmart_products(st.ingredients, script,
                                   Len(st.ingredients), urs).items = <<>>

product_finder_node ==
    LET done(script, resp1, resp2) ==
            LET r == ProductFinderAgent_execute(state, use_real_store, script,
                                                resp1, resp2)
            IN  Dispatch("product_finder", r.st, r.calls, <<>>,
                         r.use_real_store)
    IN  /\ Runnable("product_finder")
        /\ \E script \in (IF use_real_store
                       THEN WalmartScripts(Len(state.ingredients))
                       ELSE {<<>>}) :
          IF ~ProductFinderMaps(state, use_real_store, script)
          THEN done(script, LLMRaise, LLMRaise)
          ELSE \E resp1 \in MappingFirstResponses :
                 IF MappingSecondCall(resp1)
                 THEN \E resp2 \in MappingSimpleResponses :
                         done(script, resp1, resp2)
                 ELSE done(script, resp1, LLMRaise)

budgeting_node ==
    /\ Runnable("budgeting")
    /\ \E resp \in TextResponses :
        Dispatch("budgeting", BudgetingAgent_execute(state, resp),
                 IF NoBudget(state.budget) THEN <<>> ELSE <<LLMCall(resp)>>,
                 IF BudgetingFits(state)
                 THEN FitToBudget(state.shopping_items, state.budget[1]).trace
                 ELSE <<>>,
                 use_real_store)

finalizer_node ==
    /\ Runnable("finalizer")
    /\ \E resp \in TextResponses :
        Dispatch("finalizer", FinalizerAgent_execute(state, resp),
                 IF state.shopping_items = <<>> THEN <<>>
                 ELSE <<LLMCall(resp)>>,
                 <<>>, use_real_store)

\* The message and the error that run adds when graph.invoke returns
\* "agent in error": the handler's prefix, or the one fixed text that
\* holds a stage name
ErrorMentions(error, agent) ==
    \/ error.agent = agent
    \/ /\ agent = "recipe"
       /\ error.text = "Failed to find recipe via Mistral API"

\* get_agent_status, lines 132-146
get_agent_status(st) ==
    [agent \in Range(agent_sequence) |->
        IF agent \in Range(st.completed_agents) THEN "Completed"
        ELSE IF \E i \in 1..Len(st.errors) : ErrorMentions(st.errors[i], agent)
        THEN "Failed"
        ELSE "Pending"]

SuccessMessage ==
    Msg("", "Shopping list generated successfully via Mistral API", <<>>)

WorkflowIncomplete ==
    Err("", "Workflow incomplete - check API connection", "")

\* run, lines 100-111, asking for all five stages
RunSuccessAllFive(final_state) ==
    IF Len(final_state.completed_agents) >= Len(agent_sequence)
    THEN [final_state EXCEPT !.messages = Append(@, SuccessMessage)]
    ELSE [final_state EXCEPT !.errors = Append(@, WorkflowIncomplete)]

\* run, lines 100-111: graph.invoke returned final_state
RunSuccess(final_state) ==
    IF Len(final_state.completed_agents) >= 3
    THEN [final_state EXCEPT !.messages = Append(@, SuccessMessage)]
    ELSE [final_state EXCEPT !.errors = Append(@, WorkflowIncomplete)]

\* run, lines 113-130, appending nothing to errors
RunExceptSilent(initial_state, error_msg) ==
    [initial_state EXCEPT !.next_agent = "error"]

\* run, lines 113-130, with next_agent left as it was
RunExceptKeepNext(initial_state, error_msg) ==
    LET s1 == [initial_state EXCEPT !.errors = Append(@,
                  Err("", "Graph execution error", error_msg))]
    IN  [s1 EXCEPT !.errors = Append(@,
            Err("", "Unexpected error occurred. Check logs for details.", ""))]

\* run, lines 113-130: graph.invoke raised
RunExcept(initial_state, error_msg) ==
    LET s1 == [initial_state EXCEPT !.errors = Append(@,
                  Err("", "Graph execution error", error_msg)),
                  !.next_agent = "error"]
    IN  CASE error_msg = "rate limit" ->
               [s1 EXCEPT !.errors = Append(@,
                    Err("", "Mistral API rate limit reached. Please wait and try again.", "")),
                          !.messages = Append(@,
                    Msg("", "Try again in a few minutes or check your API credits.", <<>>))]
          [] error_msg = "api" ->
               [s1 EXCEPT !.errors = Append(@,
                    Err("", "Mistral API connection failed. Check your API key.", "")),
                          !.messages = Append(@,
                    Msg("", "Verify MISTRAL_API_KEY is set correctly.", <<>>))]
          [] OTHER ->
               [s1 EXCEPT !.errors = Append(@,
                    Err("", "Unexpected error occurred. Check logs for details.", ""))]

\* The caller's initial_state when graph.invoke raises: the handlers
\* assigned keys of their own copy of the record, but appended to the
\* message, error and completion lists that initial_state shares with it
InitialStateOf(st) ==
    [create_initial_state(st.user_request, st.budget, st.people_count)
       EXCEPT !.messages = st.messages,
              !.errors = st.errors,
              !.completed_agents = st.completed_agents]

InitialStateNow == InitialStateOf(state)

run_return ==
    /\ pc = "invoke"
    /\ node = END
    /\ state' = RunSuccess(state)
    /\ pc' = "returned"
    /\ UNCHANGED <<node, exc, dispatched, prev, calls, loop_trace,
                   use_real_store>>

run_except ==
    /\ pc = "invoke"
    /\ node # END
    /\ \E error_msg \in (IF node = RECURSION THEN {"recursion"}
                         ELSE GraphErrors) :
          /\ state' = RunExcept(InitialStateNow, error_msg)
          /\ exc' = error_msg
    /\ pc' = "returned"
    /\ UNCHANGED <<node, dispatched, prev, calls, loop_trace, use_real_store>>

Init ==
    /\ \E budget \in Budgets :
          state = create_initial_state("dinner for 4", budget, 4)
    /\ node = "planner"
    /\ pc = "invoke"
    /\ exc = "none"
    /\ dispatched = <<>>
    /\ prev = state
    /\ calls = <<>>
    /\ loop_trace = <<>>
    /\ use_real_store \in BOOLEAN

Next ==
    \/ planner_node
    \/ recipe_node
    \/ product_finder_node
    \/ budgeting_node
    \/ finalizer_node
    \/ run_return
    \/ run_except

Spec == Init /\ [][Next]_vars

(***************************************************************************)
(* agents/supervisor_agent.py                                              *)
(* SupervisorAgent is constructed by the graph but is not one of its       *)
(* nodes; its execute is applied here to the records a run can hold.  A    *)
(* Generator answer is a sequence of words.                                *)
(***************************************************************************)
MaxErrors == 4

\* str.lower() on the words of an answer
LowerWords(body) == {Lower(body[i]) : i \in 1..Len(body)}

\* _get_next_sequential_agent
get_next_sequential_agent(completed_agents) ==
    LET todo == {i \in 1..Len(agent_sequence) :
                    agent_sequence[i] \notin Range(completed_agents)}
    IN  IF todo = {} THEN "complete"
        ELSE agent_sequence[CHOOSE i \in todo : \A k \in todo : i <= k]

\* _determine_next_agent throwing the Generator's answer away
determine_next_agent_discard(st, resp) ==
    get_next_sequential_agent(st.completed_agents)

\* _determine_next_agent: the first of the seven names found in the
\* lower-cased answer
determine_next_agent(st, resp) ==
    LET names == agent_sequence \o <<"complete", "error">>
        found == IF resp.kind = "raise" THEN {}
                 ELSE {i \in 1..Len(names) : names[i] \in LowerWords(resp.body)}
    IN  IF found = {} THEN get_next_sequential_agent(st.completed_agents)
        ELSE names[CHOOSE i \in found : \A k \in found : i <= k]

\* execute storing the first word of the Generator's answer as it came
SupervisorAgent_execute_verbatim(st, resp) ==
    LET s1 == log_execution(st, "supervisor", "Determining next agent", <<>>)
    IN  IF resp.kind = "raise"
        THEN [s1 EXCEPT !.next_agent =
                            get_next_sequential_agent(st.completed_agents)]
        ELSE [s1 EXCEPT !.next_agent = resp.body[1]]

SupervisorAgent_execute(st, resp) ==
    LET s1 == log_execution(st, "supervisor", "Determining next agent", <<>>)
    IN  IF st.next_agent = "complete"
           \/ Len(st.completed_agents) >= Len(agent_sequence)
        THEN log_execution([s1 EXCEPT !.next_agent = "complete"],
                           "supervisor", "Process completed", <<>>)
        ELSE IF Len(st.errors) > 3
        THEN log_execution([s1 EXCEPT !.next_agent = "error"],
                           "supervisor", "Too many errors, stopping process",
                           <<>>)
        ELSE LET next_agent == determine_next_agent(s1, resp)
             IN  log_execution([s1 EXCEPT !.next_agent = next_agent],
                               "supervisor", "Next agent", <<>>)

\* TRUE iff execute gets as far as asking the Generator
SupervisorAsks(st) ==
    /\ st.next_agent # "complete"
    /\ Len(st.completed_agents) < Len(agent_sequence)
    /\ Len(st.errors) <= 3

SupervisorResponses ==
    {LLMRaise,
     LLMText(<<"I", "cannot", "decide">>),
     LLMText(<<"recipe">>),
     LLMText(<<"Finalizer">>),
     LLMText(<<"retry", "budgeting", "after", "planner">>),
     LLMText(<<"stop", "with", "error">>),
     LLMText(<<"complete">>)}

\* The completed_agents a run can hold: the stages that succeeded, in order
CompletedLists ==
    {s \in SeqsUpTo(Range(agent_sequence), Len(agent_sequence)) :
        \A i, k \in 1..Len(s) :
            i < k => \E a, b \in 1..Len(agent_sequence) :
                        a < b /\ agent_sequence[a] = s[i]
                              /\ agent_sequence[b] = s[k]}

\* The records handed to the supervisor
SupervisorRecords ==
    {[create_initial_state("dinner for 4", None, 4)
        EXCEPT !.completed_agents = c,
               !.errors = [i \in 1..n |-> Err("recipe", "failed", "")],
               !.next_agent = a] :
        c \in CompletedLists, n \in 0..MaxErrors,
        a \in Range(agent_sequence) \cup {"complete", "error"}}

supervisor_execute ==
    /\ pc = "supervise"
    /\ \E resp \in SupervisorResponses :
          /\ state' = SupervisorAgent_execute(state, resp)
          /\ calls' = IF SupervisorAsks(state) THEN <<LLMCall(resp)>>
                      ELSE <<>>
    /\ prev' = state
    /\ pc' = "supervised"
    /\ UNCHANGED <<node, exc, dispatched, loop_trace, use_real_store>>

SupervisorInit ==
    /\ state \in SupervisorRecords
    /\ node = "supervisor"
    /\ pc = "supervise"
    /\ exc = "none"
    /\ dispatched = <<>>
    /\ prev = state
    /\ calls = <<>>
    /\ loop_trace = <<>>
    /\ use_real_store = FALSE

SupervisorNext == supervisor_execute

SupervisorSpec == SupervisorInit /\ [][SupervisorNext]_vars

(***************************************************************************)
(* The operations that write next_agent, together: a run of the graph from *)
(* create_initial_state, and SupervisorAgent.execute on a record.          *)
(***************************************************************************)
WritersInit == Init \/ SupervisorInit

WritersNext == Next \/ SupervisorNext

WritersSpec == WritersInit /\ [][WritersNext]_vars

(***************************************************************************)
(* main.py: one GroceryShoppingGraph instance serves the requests of a      *)
(* session.  The collaborators' answers to a run are fixed when it starts;  *)
(* `dispatched` lists the runs finished on the instance: what each started *)
(* from, the product finder's calls, the record returned and the flag left.*)
(***************************************************************************)
MaxRuns == 2

NoFault == [at |-> END, error_msg |-> "none"]

\* Every collaborator fails
AllRaise ==
    [planner   |-> LLMRaise,
     recipe1   |-> LLMRaise,
     recipe2   |-> LLMRaise,
     script    |-> [i \in 1..2 |->
                      [search |-> [status |-> 401, results |-> <<>>],
                       fallback |-> LLMRaise]],
     map1      |-> LLMRaise,
     map2      |-> LLMRaise,
     budgeting |-> LLMRaise,
     finalizer |-> LLMRaise,
     fault     |-> NoFault]

\* The answers of the collaborators to a run: one per Generator prompt, one
\* search outcome and fallback answer per ingredient, and the node (if any)
\* at which graph.invoke raises
SessionSteps ==
    {[search |-> [status |-> 401, results |-> <<>>],
      fallback |-> LLMText(ProductLine(Bread))],
     [search |-> [status |-> 200, results |->
        <<[title |-> <<"Great", "Value", "Beef">>,
           price |-> WalmartPrice("num", 700), size |-> Some("16 oz")]>>],
      fallback |-> LLMRaise]}

SessionEnvs ==
    [planner   : {LLMText(<<" ", "make", "dinner", " ">>)},
     recipe1   : {RecipeBody("fence_json",
                     JsonObject(Some("Chili"), Some(BeefAndMilk), Some(4),
                                Instr("list", <<<<"Brown">>, <<"Simmer">>>>)))},
     recipe2   : {LLMRaise},
     script    : [1..2 -> SessionSteps],
     map1      : {LLMRaise,
                  LLMText([wrap |-> "fence", json |->
                             [type |-> "array",
                              elems |-> <<JsonElem(Bread)>>]])},
     map2      : {LLMRaise},
     budgeting : {LLMText(<<" ", "text", " ">>)},
     finalizer : {LLMText(<<" ", "text", " ">>)},
     fault     : {NoFault, [at |-> "budgeting", error_msg |-> "api"]}]

SessionBudgets == {None, Some(2500)}

\* The handler of node n applied to st
NodeResult(n, st, urs, env) ==
    CASE n = "planner" ->
            [st |-> PlannerAgent_execute(st, env.planner),
             calls |-> <<>>, use_real_store |-> urs]
      [] n = "recipe" ->
            [st |-> RecipeAgent_execute(st, env.recipe1, env.recipe2),
             calls |-> <<>>, use_real_store |-> urs]
      [] n = "product_finder" ->
            ProductFinderAgent_execute(st, urs, env.script, env.map1, env.map2)
      [] n = "budgeting" ->
            [st |-> BudgetingAgent_execute(st, env.budgeting),
             calls |-> <<>>, use_real_store |-> urs]
      [] OTHER ->
            [st |-> FinalizerAgent_execute(st, env.finalizer),
             calls |-> <<>>, use_real_store |-> urs]

\* main.py line 508, graph.py lines 87-98: run is called with a new record;
\* prev keeps what the run started from
session_run ==
    /\ pc = "session"
    /\ Len(dispatched) < MaxRuns
    /\ \E budget \in SessionBudgets, env \in SessionEnvs :
          LET initial_state == create_initial_state("dinner for 4", budget, 4)
          IN  /\ state' = initial_state
              /\ prev' = [initial_state |-> initial_state, env |-> env,
                          use_real_store |-> use_real_store, steps |-> 0]
    /\ node' = "planner"
    /\ pc' = "running"
    /\ calls' = <<>>
    /\ UNCHANGED <<exc, dispatched, loop_trace, use_real_store>>

\* graph.invoke runs the handler of the current node
session_node ==
    /\ pc = "running"
    /\ node \in Range(agent_sequence)
    /\ node # prev.env.fault.at
    /\ LET r == NodeResult(node, state, use_real_store, prev.env)
       IN  /\ state' = r.st
           /\ calls' = calls \o r.calls
           /\ use_real_store' = r.use_real_store
           /\ node' = NextNode(node, r.st, prev.steps + 1)
    /\ prev' = [prev EXCEPT !.steps = @ + 1]
    /\ UNCHANGED <<pc, exc, dispatched, loop_trace>>

\* run, lines 100-130: graph.invoke returned or raised
session_return ==
    /\ pc = "running"
    /\ node \notin Range(agent_sequence) \/ node = prev.env.fault.at
    /\ LET final_state ==
               IF node = END THEN RunSuccess(state)
               ELSE RunExcept(InitialStateOf(state),
                              IF node = RECURSION THEN "recursion"
                              ELSE prev.env.fault.error_msg)
       IN  /\ state' = final_state
           /\ dispatched' = Append(dispatched,
                 [initial_state |-> prev.initial_state, env |-> prev.env,
                  use_real_store |-> prev.use_real_store,
                  calls |-> calls, final_state |-> final_state,
                  left |-> use_real_store])
    /\ pc' = "session"
    /\ UNCHANGED <<node, exc, prev, calls, loop_trace, use_real_store>>

\* A new instance: use_real_store is bool(SERPAPI_KEY)
SessionInit ==
    /\ use_real_store \in BOOLEAN
    /\ state = create_initial_state("dinner for 4", None, 4)
    /\ node = "planner"
    /\ pc = "session"
    /\ exc = "none"
    /\ dispatched = <<>>
    /\ prev = [initial_state |-> state, env |-> AllRaise,
               use_real_store |-> use_real_store, steps |-> 0]
    /\ calls = <<>>
    /\ loop_trace = <<>>

SessionNext ==
    \/ session_run
    \/ session_node
    \/ session_return

SessionSpec == SessionInit /\ [][SessionNext]_vars

(***************************************************************************)
(* The handlers called directly, as test_agents.py calls them: any handler *)
(* on whatever record the last call left, in any order, any number of      *)
(* times; then the epilogue of run on the record reached.                  *)
(***************************************************************************)
MaxInvocations == 3

DirectEnvs ==
    {e \in SessionEnvs : e.fault = NoFault /\ e.script[1] = e.script[2]}
        \cup {AllRaise}

\* agent.execute(state) for any of the five agents
direct_execute ==
    /\ pc = "direct"
    /\ Len(dispatched) < MaxInvocations
    /\ \E n \in Range(agent_sequence), env \in DirectEnvs :
          LET r == NodeResult(n, state, use_real_store, env)
          IN  /\ state' = r.st
              /\ prev' = state
              /\ calls' = r.calls
              /\ use_real_store' = r.use_real_store
              /\ dispatched' = Append(dispatched, n)
    /\ UNCHANGED <<node, pc, exc, loop_trace>>

\* run, lines 100-111
direct_return ==
    /\ pc = "direct"
    /\ state' = RunSuccess(state)
    /\ pc' = "returned"
    /\ UNCHANGED <<node, exc, dispatched, prev, calls, loop_trace,
                   use_real_store>>

\* run, lines 113-130
direct_except ==
    /\ pc = "direct"
    /\ \E error_msg \in GraphErrors :
          /\ state' = RunExcept(InitialStateOf(state), error_msg)
          /\ exc' = error_msg
    /\ pc' = "returned"
    /\ UNCHANGED <<node, dispatched, prev, calls, loop_trace, use_real_store>>

DirectInit ==
    /\ \E budget \in {None, Some(250)} :
          state = create_initial_state("dinner for 4", budget, 4)
    /\ node = "direct"
    /\ pc = "direct"
    /\ exc = "none"
    /\ dispatched = <<>>
    /\ prev = state
    /\ calls = <<>>
    /\ loop_trace = <<>>
    /\ use_real_store \in BOOLEAN

DirectNext ==
    \/ direct_execute
    \/ direct_return
    \/ direct_except

DirectSpec == DirectInit /\ [][DirectNext]_vars

(***************************************************************************)
(* FinalizerAgent._organize_by_category applied to a list of line items:   *)
(* `dispatched` lists the groupings computed so far from the list in       *)
(* state.shopping_items.                                                   *)
(***************************************************************************)
MaxGroupItems == 3

MaxGroupings == 2

GroupItems ==
    {ShoppingItem(c[1], c[2], c[3], c[4]) : c \in Catalog}
        \cup {ShoppingItem(<<"Ground", "Beef">>, "1 lb", BeefPrice, "meat")}

organize ==
    /\ pc = "organize"
    /\ Len(dispatched) < MaxGroupings
    /\ dispatched' =
          Append(dispatched, organize_by_category(state.shopping_items))
    /\ prev' = state
    /\ UNCHANGED <<state, node, pc, exc, calls, loop_trace, use_real_store>>

OrganizeInit ==
    /\ \E items \in SeqsUpTo(GroupItems, MaxGroupItems) :
          state = [create_initial_state("dinner for 4", None, 4)
                     EXCEPT !.shopping_items = items]
    /\ node = "finalizer"
    /\ pc = "organize"
    /\ exc = "none"
    /\ dispatched = <<>>
    /\ prev = state
    /\ calls = <<>>
    /\ loop_trace = <<>>
    /\ use_real_store = FALSE

OrganizeNext == organize

OrganizeSpec == OrganizeInit /\ [][OrganizeNext]_vars

(***************************************************************************)
(* BudgetingAgent._optimize_for_budget applied to a list of line items and *)
(* a budget: loop_trace is the working copy after each pop of the loop.    *)
(***************************************************************************)
MaxFitItems == 3

FitItems ==
    GroupItems \cup {ShoppingItem(<<"Rolls">>, "6 pack", 300, "bakery"),
                     ShoppingItem(<<"ground", "beef">>, "1 lb", 700, "meat")}

FitBudgets == {-100, 0, 500, 1300, 2500}

fit ==
    /\ pc = "fit"
    /\ LET budget == state.budget[1]
           fitted == FitToBudget(state.shopping_items, budget)
       IN  /\ loop_trace' = fitted.trace
           /\ state' = StoreOptimized(state,
                  optimize_for_budget(state.shopping_items, budget))
    /\ prev' = state
    /\ pc' = "fitted"
    /\ UNCHANGED <<node, exc, dispatched, calls, use_real_store>>

FitInit ==
    /\ \E items \in SeqsUpTo(FitItems, MaxFitItems), budget \in FitBudgets :
          state = [create_initial_state("dinner for 4", Some(budget), 4)
                     EXCEPT !.shopping_items = items,
                            !.total_cost = SumPrices(items)]
    /\ node = "budgeting"
    /\ pc = "fit"
    /\ exc = "none"
    /\ dispatched = <<>>
    /\ prev = state
    /\ calls = <<>>
    /\ loop_trace = <<>>
    /\ use_real_store = FALSE

FitNext == fit

FitSpec == FitInit /\ [][FitNext]_vars

(***************************************************************************)
(* Properties of the run                                                   *)
(***************************************************************************)
\* The handler dispatched last, "" before the first dispatch
LastDispatched ==
    IF dispatched = <<>> THEN "" ELSE dispatched[Len(dispatched)]

\* TRUE iff the record is the one handler n has just returned to the graph
JustRan(n) == pc = "invoke" /\ LastDispatched = n

\* C1: in a run in which no error has been recorded, completed_agents is at
\* every stage boundary the prefix of planner, recipe, product_finder,
\* budgeting, finalizer made of the handlers dispatched so far, and it is
\* the whole sequence in the record that run returns.
C1_PipelineOrder ==
    state.errors = <<>> =>
        /\ IsPrefix(state.completed_agents, agent_sequence)
        /\ state.completed_agents = dispatched
        /\ pc = "returned" => state.completed_agents = agent_sequence

C1_Witness ==
    /\ pc = "returned"
    /\ exc = "none"
    /\ state.errors = <<>>
    /\ state.completed_agents = agent_sequence

\* C2: at every stage boundary, on success and failure paths alike,
\* total_cost is the sum of estimated_price over the current shopping_items.
C2_TotalIsSum == state.total_cost = SumPrices(state.shopping_items)

\* The narrative call failed after a fitting that changed the list
C2_Witness ==
    /\ JustRan("budgeting")
    /\ BudgetingFits(prev)
    /\ calls = <<LLMCall(LLMRaise)>>
    /\ state.shopping_items # <<>>
    /\ state.shopping_items # prev.shopping_items
    /\ state.total_cost # prev.total_cost

\* C3: for a budget >= 0 present on the record, once the Budget handler has
\* run its fitting algorithm (removal loop, substitution table, recomputed
\* total), total_cost <= budget or shopping_items is empty.
C3_FittingMeetsBudget ==
    (JustRan("budgeting") /\ BudgetingFits(prev) /\ prev.budget[1] >= 0) =>
        \/ state.total_cost <= state.budget[1]
        \/ state.shopping_items = <<>>

\* C4: budget fitting never increases the item count or the total cost:
\* the list after each removal step, and the list the Budget handler
\* finally stores, have no more items and no greater a sum of prices than
\* the list the handler received.
C4_FittingNeverIncreases ==
    (JustRan("budgeting") /\ BudgetingFits(prev)) =>
        LET NoMore(items) ==
                /\ Len(items) <= Len(prev.shopping_items)
                /\ SumPrices(items) <= SumPrices(prev.shopping_items)
        IN  /\ \A i \in 1..Len(loop_trace) : NoMore(loop_trace[i])
            /\ NoMore(state.shopping_items)

\* C5: the error marker is absorbing: once a handler has set next_agent to
\* "error", no further handler is dispatched and next_agent stays "error"
\* up to and including the record that run returns.
C5_ErrorAbsorbing ==
    [][(pc = "invoke" /\ state.next_agent = "error") =>
          (dispatched' = dispatched /\ state'.next_agent = "error")]_vars

\* C6: no exception escapes run: every handler hands back a whole record
\* whatever its collaborators did, and when graph execution raises, run
\* returns a record with next_agent = "error" whose errors describe the
\* failure.
C6_NoEscape ==
    /\ pc \in {"invoke", "returned"}
    /\ DOMAIN state = StateFields
    /\ (pc = "returned" /\ exc # "none") =>
          /\ state.next_agent = "error"
          /\ \E i \in 1..Len(state.errors) :
                state.errors[i] = Err("", "Graph execution error", exc)

C6_Witness ==
    /\ pc = "returned"
    /\ exc = "api"
    /\ LastDispatched = "product_finder"
    /\ Len(state.errors) >= 2

\* C7: once the Finalize handler has returned, on every path, final_list
\* is set and next_agent is "complete"; when the Generator failed,
\* final_list is the fallback text with one line per item of
\* shopping_items carrying its name and price, and the total.
C7_FinalListAlways ==
    LastDispatched = "finalizer" =>
        /\ ~IsNone(state.final_list)
        /\ state.next_agent = "complete"
        /\ calls = <<LLMCall(LLMRaise)>> =>
              LET final_list == state.final_list[1]
                  items == state.shopping_items
              IN  /\ final_list.kind = "fallback"
                  /\ Len(final_list.lines) = Len(items)
                  /\ \A i \in 1..Len(items) :
                        /\ final_list.lines[i].name = items[i].name
                        /\ final_list.lines[i].price = items[i].estimated_price
                  /\ final_list.total = Some(state.total_cost)

C7_Witness ==
    /\ JustRan("finalizer")
    /\ calls = <<LLMCall(LLMRaise)>>
    /\ Len(state.shopping_items) = MaxItems
    /\ state.final_list[1].kind = "fallback"

\* C8: a run dispatches at most 15 stage handlers, whatever the Generator
\* answers and whatever the handlers write into next_agent; a handler is
\* runnable only below that ceiling.
C8_DispatchCeiling ==
    /\ Len(dispatched) <= recursion_limit
    /\ (pc = "invoke" /\ node \in Range(agent_sequence)) =>
          Len(dispatched) < recursion_limit

C8_Witness ==
    /\ pc = "returned"
    /\ exc = "none"
    /\ dispatched = agent_sequence
    /\ state.next_agent = "complete"

\* C9: after a handler invocation that leaves more than 3 accumulated
\* errors, next_agent is forced to "error" and no further handler is
\* dispatched.
C9_ErrorThreshold ==
    [][(pc = "invoke" /\ dispatched # <<>> /\ Len(state.errors) > 3) =>
          (dispatched' = dispatched /\ state'.next_agent = "error")]_vars

\* A fixed-label response names no ingredient: no INGREDIENTS line, or one
\* with nothing but blanks between its commas
NoIngredients(ingredients) ==
    \A i \in 1..Len(ingredients) : ingredients[i] = ""

\* C10: when the first response to the Recipe handler is not JSON and the
\* second, fixed-label response yields no recipe name or no ingredients,
\* the handler ends with next_agent = "error", recipe still None,
\* ingredients unchanged, "recipe" not in completed_agents and an appended
\* error that names the recipe stage.
C10_RecipeDoubleFailure ==
    (/\ JustRan("recipe")
     /\ Len(calls) = 2
     /\ calls[2].resp.kind = "text"
     /\ \/ SimpleField(calls[2].resp.body, "RECIPE_NAME:", "") = ""
        \/ NoIngredients(SimpleField(calls[2].resp.body, "INGREDIENTS:", <<>>)))
    =>
        /\ state.next_agent = "error"
        /\ IsNone(state.recipe)
        /\ state.ingredients = prev.ingredients
        /\ "recipe" \notin Range(state.completed_agents)
        /\ \E i \in (Len(prev.errors) + 1)..Len(state.errors) :
              state.errors[i].agent = "recipe"

\* TRUE iff a fixed-label response has a line that starts with the label
HasLabel(lines, label) == \E i \in 1..Len(lines) : lines[i].label = label

C12_NoIngredientsFails ==
    (JustRan("product_finder") /\ prev.ingredients = <<>>) =>
        /\ state.next_agent = "error"
        /\ Len(state.errors) = Len(prev.errors) + 1
        /\ state.errors[Len(state.errors)].agent = "product_finder"
        /\ IsPrefix(prev.errors, state.errors)
        /\ calls = <<>>
        /\ state.completed_agents = prev.completed_agents
        /\ "product_finder" \notin Range(state.completed_agents)
        /\ state.shopping_items = prev.shopping_items
        /\ state.total_cost = prev.total_cost

\* No ingredients although the price lookup is configured
C12_Witness ==
    /\ JustRan("product_finder")
    /\ prev.ingredients = <<>>
    /\ use_real_store
    /\ calls = <<>>
    /\ state.next_agent = "error"

\* The line items made by all the paths the product finder attempted
RECURSIVE ItemsMade(_)
ItemsMade(c) == IF c = <<>> THEN 0 ELSE Head(c).items + ItemsMade(Tail(c))

\* C13: with ingredients to map, the ProductMap handler ends with
\* next_agent = "error" only if none of the paths it attempted (live
\* lookup, per-ingredient Generator fallback, batched JSON, fixed-label
\* lines) made a line item; as soon as one was made, even for only some of
\* the ingredients, the stage completes with a non-empty shopping_items and
\* next_agent = "budgeting".
C13_FailsOnlyWithoutItems ==
    (JustRan("product_finder") /\ prev.ingredients # <<>>) =>
        /\ state.next_agent = "error" => ItemsMade(calls) = 0
        /\ ItemsMade(calls) > 0 =>
              /\ state.shopping_items # <<>>
              /\ state.next_agent = "budgeting"
              /\ "product_finder" \in Range(state.completed_agents)

\* A partial result: fewer items than ingredients, from lines of which one
\* did not parse
C13_Witness ==
    /\ JustRan("product_finder")
    /\ Len(calls) = 2
    /\ calls[2].to = "llm"
    /\ calls[2].items = 1
    /\ Len(state.shopping_items) < Len(state.ingredients)
    /\ state.next_agent = "budgeting"

\* The ProductMap handler ran without a live lookup and got two answers
\* from the Generator, neither of them JSON
MappedFromTextOnly ==
    /\ JustRan("product_finder")
    /\ Len(calls) = 2
    /\ calls[1].to = "llm"
    /\ calls[2].resp.kind = "text"

C15_WithinBudgetUnchanged ==
    (/\ JustRan("budgeting")
     /\ \/ IsNone(prev.budget)
        \/ prev.total_cost <= prev.budget[1])
    =>
        /\ state.shopping_items = prev.shopping_items
        /\ state.total_cost = prev.total_cost
        /\ state.next_agent = "finalizer"
        /\ IsNone(prev.budget) =>
              /\ calls = <<>>
              /\ "budgeting" \in Range(state.completed_agents)
              /\ state.errors = prev.errors

\* Within budget with an item the substitution table would have repriced
C15_Witness ==
    /\ JustRan("budgeting")
    /\ ~IsNone(prev.budget)
    /\ prev.budget[1] > 0
    /\ prev.total_cost <= prev.budget[1]
    /\ \E i \in 1..Len(prev.shopping_items) :
          NameHas(prev.shopping_items[i].name, "beef")
    /\ state.shopping_items = prev.shopping_items

\* C16: the Budget handler ends with next_agent = "finalizer" on every
\* path; when the narrative call fails after an over-budget fitting, the
\* fitted shopping_items and the recomputed total_cost are kept and the
\* failure is recorded as one appended error.
C16_BudgetAlwaysAdvances ==
    JustRan("budgeting") =>
        /\ state.next_agent = "finalizer"
        /\ (BudgetingFits(prev) /\ calls = <<LLMCall(LLMRaise)>>) =>
              LET fitted == optimize_for_budget(prev.shopping_items,
                                                prev.budget[1])
              IN  /\ state.shopping_items = fitted
                  /\ state.total_cost = SumPrices(fitted)
                  /\ state.errors =
                        Append(prev.errors,
                               Err("budgeting", "Budget analysis failed",
                                   "llm"))

\* The narrative call failed after a fitting that removed an item
C16_Witness ==
    /\ JustRan("budgeting")
    /\ BudgetingFits(prev)
    /\ calls = <<LLMCall(LLMRaise)>>
    /\ Len(state.shopping_items) < Len(prev.shopping_items)
    /\ state.errors # prev.errors

\* C17: when the Generator raises during the Finalize handler, the handler
\* still counts as completed: "finalizer" is in completed_agents, and
\* final_list is the fallback text with "SHOPPING LIST" and the name of
\* every item.
C17_FallbackCountsAsCompleted ==
    (JustRan("finalizer") /\ calls = <<LLMCall(LLMRaise)>>) =>
        /\ "finalizer" \in Range(state.completed_agents)
        /\ ~IsNone(state.final_list)
        /\ state.final_list[1].kind = "fallback"
        /\ "SHOPPING LIST" \in Range(state.final_list[1].text)
        /\ \A i \in 1..Len(state.shopping_items) :
              \E k \in 1..Len(state.final_list[1].lines) :
                 state.final_list[1].lines[k].name =
                    state.shopping_items[i].name

(***************************************************************************)
(* main.py, lines 511-519: how the caller classes the record run returned  *)
(***************************************************************************)
CompletionClass(st) ==
    IF Len(st.completed_agents) >= 3 THEN "success"
    ELSE IF st.errors # <<>> THEN "partial"
    ELSE "failure"

\* The number of the five stages found in completed_agents
StagesCompleted(st) ==
    Cardinality(Range(st.completed_agents) \cap Range(agent_sequence))

\* C18 as stated: the record run returns is classed "success" iff at least
\* 3 of the 5 stages are in completed_agents, else "partial" iff errors is
\* not empty, else "failure"; and run appends its success message exactly
\* when at least 3 stages completed and otherwise appends a "Workflow
\* incomplete" error.
C18_CompletionClass ==
    pc = "returned" =>
        /\ CompletionClass(state) = "success" <=> StagesCompleted(state) >= 3
        /\ SuccessMessage \in Range(state.messages)
              <=> StagesCompleted(state) >= 3
        /\ WorkflowIncomplete \in Range(state.errors)
              <=> StagesCompleted(state) < 3

\* C18 amended: the class is as stated; run appends the success message
\* (at least 3 stages completed) or the "Workflow incomplete" error (fewer)
\* only when graph.invoke returned; when graph.invoke raised it appends
\* neither, whatever the number of completed stages, and the record is
\* never classed "failure".
C18_CompletionClassOnReturn ==
    pc = "returned" =>
        /\ CompletionClass(state) = "success" <=> StagesCompleted(state) >= 3
        /\ CompletionClass(state) # "failure"
        /\ exc = "none" =>
              /\ state.messages[Len(state.messages)] = SuccessMessage
                    <=> StagesCompleted(state) >= 3
              /\ (state.errors # <<>>
                    /\ state.errors[Len(state.errors)] = WorkflowIncomplete)
                    <=> StagesCompleted(state) < 3
        /\ exc # "none" =>
              /\ SuccessMessage \notin Range(state.messages)
              /\ WorkflowIncomplete \notin Range(state.errors)

\* A run classed "success" although a stage failed
C18_Witness ==
    /\ pc = "returned"
    /\ exc = "none"
    /\ StagesCompleted(state) = 3
    /\ state.errors # <<>>
    /\ state.messages[Len(state.messages)] = SuccessMessage

\* C19 as stated: the Generator's free text never changes the stage the
\* chooser picks: for a record with next_agent # "complete", fewer than 5
\* completed stages and at most 3 errors, SupervisorAgent.execute sets
\* next_agent to the first stage not in completed_agents, whatever the
\* Generator answers.
C19_ChooserIgnoresGenerator ==
    (pc = "supervised" /\ SupervisorAsks(prev)) =>
        state.next_agent = get_next_sequential_agent(prev.completed_agents)

\* C19 amended: for such a record, SupervisorAgent.execute sets next_agent
\* to the first of planner, recipe, product_finder, budgeting, finalizer,
\* complete, error that occurs in the lower-cased answer; only when none
\* occurs, or the Generator fails, does it set the first stage not in
\* completed_agents.  The value is always one of those seven names.
C19_ChooserFollowsGenerator ==
    (pc = "supervised" /\ SupervisorAsks(prev)) =>
        LET names == agent_sequence \o <<"complete", "error">>
            resp  == calls[1].resp
            named(i) == resp.kind = "text"
                           /\ names[i] \in LowerWords(resp.body)
        IN  /\ state.next_agent \in Range(names)
            /\ \A i \in 1..Len(names) :
                  (named(i) /\ \A k \in 1..(i - 1) : ~named(k))
                     => state.next_agent = names[i]
            /\ (\A i \in 1..Len(names) : ~named(i)) =>
                  state.next_agent =
                     get_next_sequential_agent(prev.completed_agents)

\* The answer sends the run back to a stage that is already completed
C19_Witness ==
    /\ pc = "supervised"
    /\ SupervisorAsks(prev)
    /\ prev.completed_agents = <<"planner", "recipe", "product_finder">>
    /\ calls = <<LLMCall(LLMText(<<"recipe">>))>>
    /\ state.next_agent = "recipe"

(***************************************************************************)
(* C20: the Plan handler makes exactly one Generator call per invocation.  *)
(* When the call returns, plan is the returned text without its leading    *)
(* and trailing whitespace, next_agent is "recipe", "planner" is in        *)
(* completed_agents and no error is added.  When the call raises, plan is  *)
(* unchanged, exactly one error (of the planner) is appended, next_agent   *)
(* is "error" and "planner" is not in completed_agents.                    *)
(***************************************************************************)
C20_PlannerOneCall ==
    JustRan("planner") =>
        /\ Len(calls) = 1
        /\ calls[1].to = "llm"
        /\ IF calls[1].resp.kind = "text"
           THEN /\ state.plan = Some(Strip(calls[1].resp.body))
                /\ state.plan # Some(calls[1].resp.body)
                /\ state.next_agent = "recipe"
                /\ "planner" \in Range(state.completed_agents)
                /\ state.errors = prev.errors
           ELSE /\ state.plan = prev.plan
                /\ Len(state.errors) = Len(prev.errors) + 1
                /\ SubSeq(state.errors, 1, Len(prev.errors)) = prev.errors
                /\ state.errors[Len(state.errors)].agent = "planner"
                /\ state.next_agent = "error"
                /\ state.completed_agents = prev.completed_agents
                /\ "planner" \notin Range(state.completed_agents)

\* the Generator failed in the Plan handler
C20_Witness ==
    /\ JustRan("planner")
    /\ calls = <<LLMCall(LLMRaise)>>
    /\ state.plan = None
    /\ Len(state.errors) = 1
    /\ state.next_agent = "error"

\* TRUE iff lines 70-89 build no Recipe from the first response: it is not
\* JSON, or JSON that is not an object, or an object lacking a required field
FirstResponseUnparseable(resp) ==
    /\ resp.kind = "text"
    /\ LET j == ExtractRecipeJson(resp.body)
       IN  j.type = "prose" \/ BuildRecipe(j).status = "raise"

\* C21: whenever the first Generator response cannot be parsed into a
\* Recipe (not JSON, JSON that is not an object, or an object lacking a
\* required field), the Recipe handler issues exactly one second Generator
\* call; the handler fails after a single call only when that call raised.
C21_SecondCallOnUnparseable ==
    JustRan("recipe") =>
        /\ FirstResponseUnparseable(calls[1].resp) => Len(calls) = 2
        /\ (Len(calls) = 1 /\ state.next_agent = "error") =>
              calls[1].resp.kind = "raise"

\* TRUE iff the record holds a recipe with a name and an ingredient, and
\* its ingredients are the recipe's
RecipeWellFormed(st) ==
    /\ ~IsNone(st.recipe)
    /\ st.recipe[1].name # ""
    /\ st.recipe[1].ingredients # <<>>
    /\ st.ingredients = st.recipe[1].ingredients

C23_LiveDisabledAfter401 ==
    JustRan("product_finder") =>
        \A i, j \in 1..Len(calls) :
            (i < j /\ calls[i].to = "search" /\ calls[i].resp.status = 401)
                => calls[j].to # "search"

KeyRejected(r) ==
    \E k \in 1..Len(r.calls) :
        r.calls[k].to = "search" /\ r.calls[k].resp.status = 401

NoDuplicates(s) == \A i, j \in 1..Len(s) : s[i] = s[j] => i = j

\* C25: in every step, messages, errors and completed_agents only grow by
\* appending (the old sequence is an initial segment of the new one), and
\* no name occurs twice in completed_agents, even when a handler is invoked
\* again on a record that already lists it.
C25_AppendOnly ==
    [][/\ IsPrefix(state.messages, state'.messages)
       /\ IsPrefix(state.errors, state'.errors)
       /\ IsPrefix(state.completed_agents, state'.completed_agents)
       /\ NoDuplicates(state'.completed_agents)]_vars

\* the planner succeeded twice on the same record
C25_Witness ==
    /\ pc = "direct"
    /\ dispatched = <<"planner", "planner">>
    /\ state.completed_agents = <<"planner">>
    /\ Len(state.messages) = 4
    /\ state.errors = <<>>

\* C26: for a record whose budget is present and <= 0 (0 included) and
\* whose total_cost exceeds it, the Budget handler runs the fitting loop:
\* shopping_items is the fitted list, and the loop stopped with its total
\* within the budget or with no item left.
C26_NonPositiveBudgetFits ==
    (/\ JustRan("budgeting")
     /\ ~IsNone(prev.budget)
     /\ prev.budget[1] <= 0
     /\ prev.total_cost > prev.budget[1])
    =>
        LET fitted == FitToBudget(prev.shopping_items, prev.budget[1])
        IN  /\ state.shopping_items =
                  optimize_for_budget(prev.shopping_items, prev.budget[1])
            /\ fitted.current_total <= prev.budget[1] \/ fitted.items = <<>>

\* C27: every item of shopping_items has a price >= 0 in every reachable
\* state, whichever path produced it.
C27_PricesNonNegative ==
    \A i \in 1..Len(state.shopping_items) :
        state.shopping_items[i].estimated_price >= 0

\* The position of the first item of category c in items
FirstOfCategory(items, c) ==
    CHOOSE i \in 1..Len(items) :
        /\ items[i].category = c
        /\ \A k \in 1..(i - 1) : items[k].category # c

\* The items of category c, in the order they have in items
RECURSIVE OfCategory(_, _)
OfCategory(items, c) ==
    IF items = <<>> THEN <<>>
    ELSE (IF Head(items).category = c THEN <<Head(items)>> ELSE <<>>)
             \o OfCategory(Tail(items), c)

\* C28: grouping line items by category is a partition that leaves its
\* input alone: the group keys are the categories of the items, each once,
\* in the order of their first appearance; the group of a category holds
\* exactly the items of that category in their original relative order (so
\* every item is in exactly one group); and grouping the same list again
\* gives the same grouping.
C28_GroupingIsPartition ==
    pc = "organize" =>
        /\ state = prev
        /\ \A k \in 1..Len(dispatched) :
              LET groups == dispatched[k]
                  items  == state.shopping_items
              IN  /\ {groups[g].category : g \in 1..Len(groups)} =
                        {items[i].category : i \in 1..Len(items)}
                  /\ \A g, h \in 1..Len(groups) :
                        g < h =>
                           FirstOfCategory(items, groups[g].category)
                              < FirstOfCategory(items, groups[h].category)
                  /\ \A g \in 1..Len(groups) :
                        groups[g].items = OfCategory(items, groups[g].category)
                  /\ dispatched[k] = dispatched[1]

\* a list whose meat items are separated by a dairy item, grouped twice
C28_Witness ==
    /\ pc = "organize"
    /\ Len(dispatched) = 2
    /\ Len(state.shopping_items) = 3
    /\ state.shopping_items[1].category = "meat"
    /\ state.shopping_items[2].category = "dairy"
    /\ state.shopping_items[3].category = "meat"
    /\ state.shopping_items[1] # state.shopping_items[3]
    /\ Len(dispatched[2]) = 2
    /\ dispatched[2][1].items =
          <<state.shopping_items[1], state.shopping_items[3]>>

\* The single string C29 gives for a JSON instructions value: the
\* validator's result, and the validator's placeholder for an absent value
NormalizedInstructions(v) ==
    IF v.tag = "absent" THEN PlaceholderValidator
    ELSE convert_instructions_to_string(v)

\* C29: a recipe stored by the Recipe handler from Generator JSON carries
\* exactly the normalized string of the JSON's instructions value: a list
\* of un-numbered steps numbered "1.", "2.", ... one per line, a list with
\* numbered leading steps unmodified, the fixed placeholder for null or
\* absent.
C29_InstructionsNormalized ==
    (/\ JustRan("recipe")
     /\ Len(calls) = 1
     /\ "recipe" \in Range(state.completed_agents))
    =>
        LET j == ExtractRecipeJson(calls[1].resp.body)
        IN  state.recipe[1].instructions =
                Some(NormalizedInstructions(j.instructions))

\* TRUE iff no item has a negative price
NonNegativePrices(items) ==
    \A i \in 1..Len(items) : items[i].estimated_price >= 0

\* The working copy before the loop and after each of its pops
WorkingCopies == <<SortDesc(prev.shopping_items)>> \o loop_trace

\* The items of price p, in the order they have in items
RECURSIVE OfPrice(_, _)
OfPrice(items, p) ==
    IF items = <<>> THEN <<>>
    ELSE (IF Head(items).estimated_price = p THEN <<Head(items)>> ELSE <<>>)
             \o OfPrice(Tail(items), p)

\* TRUE iff the first working copy is the input in price-descending order
\* with equal prices in input order, every pop removed position 0 of the
\* working copy, and no working copy that was popped from was within the
\* budget
PopsFromTop ==
    /\ \A i, j \in 1..Len(WorkingCopies[1]) :
          i < j => WorkingCopies[1][i].estimated_price
                       >= WorkingCopies[1][j].estimated_price
    /\ \A i \in 1..Len(prev.shopping_items) :
          LET p == prev.shopping_items[i].estimated_price
          IN  OfPrice(WorkingCopies[1], p) = OfPrice(prev.shopping_items, p)
    /\ Len(WorkingCopies[1]) = Len(prev.shopping_items)
    /\ \A k \in 1..Len(loop_trace) :
          /\ loop_trace[k] = Tail(WorkingCopies[k])
          /\ SumPrices(WorkingCopies[k]) > prev.budget[1]

\* C30 as stated: for lists with non-negative prices every step of the
\* fitting loop removes the item at position 0 of the price-descending
\* working copy, and the items surviving the loop are the longest suffix of
\* that ordering whose price sum is <= budget.
C30_SurvivorsLongestFittingSuffix ==
    (pc = "fitted" /\ NonNegativePrices(prev.shopping_items)) =>
        /\ PopsFromTop
        /\ SumPrices(WorkingCopies[Len(WorkingCopies)]) <= prev.budget[1]

\* C30 amended: the same, except that for a negative budget, which no
\* suffix of a list with non-negative prices meets, nothing survives.
C30_SurvivorsFitOrNone ==
    (pc = "fitted" /\ NonNegativePrices(prev.shopping_items)) =>
        LET survivors == WorkingCopies[Len(WorkingCopies)]
        IN  /\ PopsFromTop
            /\ prev.budget[1] >= 0 => SumPrices(survivors) <= prev.budget[1]
            /\ prev.budget[1] < 0 => survivors = <<>>

\* two pops out of three items, the cheapest one surviving
C30_Witness ==
    /\ pc = "fitted"
    /\ NonNegativePrices(prev.shopping_items)
    /\ Len(prev.shopping_items) = 3
    /\ prev.shopping_items[1].estimated_price
          < prev.shopping_items[2].estimated_price
    /\ Len(loop_trace) = 2
    /\ Len(loop_trace[2]) = 1
    /\ loop_trace[2][1] = prev.shopping_items[1]

\* C31: every run whose graph execution returns normally has dispatched
\* each of the five handlers exactly once, in the order planner, recipe,
\* product_finder, budgeting, finalizer, whatever errors were recorded and
\* whatever next_agent the handlers wrote; the record it returns has
\* next_agent = "complete" and a final_list, never next_agent = "error".
C31_NormalRunDispatchesAll ==
    (pc = "returned" /\ exc = "none") =>
        /\ dispatched = agent_sequence
        /\ state.next_agent = "complete"
        /\ ~IsNone(state.final_list)

\* a normal return of a run in which the planner, the recipe stage and the
\* product finder all failed
C31_Witness ==
    /\ pc = "returned"
    /\ exc = "none"
    /\ dispatched = agent_sequence
    /\ "planner" \notin Range(state.completed_agents)
    /\ "recipe" \notin Range(state.completed_agents)
    /\ "product_finder" \notin Range(state.completed_agents)
    /\ Len(state.errors) >= 3
    /\ state.next_agent = "complete"

\* TRUE iff handler n completed: it added its name to completed_agents and
\* appended no error
HandlerCompleted(n) ==
    /\ state.completed_agents = Append(prev.completed_agents, n)
    /\ state.errors = prev.errors

\* TRUE iff handler n failed: it appended at least one error prefixed with
\* its name and left completed_agents unchanged
HandlerFailed(n) ==
    /\ state.completed_agents = prev.completed_agents
    /\ IsPrefix(prev.errors, state.errors)
    /\ \E i \in (Len(prev.errors) + 1)..Len(state.errors) :
          state.errors[i].agent = n

C33_FewCompletedHasErrors ==
    pc = "returned" =>
        /\ Len(state.completed_agents) < 3 => state.errors # <<>>
        /\ CompletionClass(state) \in {"success", "partial"}

\* graph.invoke raised before any handler ran: the only errors are run's
C33_Witness ==
    /\ pc = "returned"
    /\ exc # "none"
    /\ dispatched = <<>>
    /\ state.completed_agents = <<>>
    /\ Len(state.errors) = 2
    /\ CompletionClass(state) = "partial"

\* C34: in every record run returns, "product_finder" in completed_agents
\* implies "recipe" in completed_agents, and "product_finder" not in
\* completed_agents implies that shopping_items is empty and total_cost is
\* 0.
C34_ProductFinderNeedsRecipe ==
    pc = "returned" =>
        LET completed == Range(state.completed_agents)
        IN  /\ "product_finder" \in completed => "recipe" \in completed
            /\ "product_finder" \notin completed =>
                  state.shopping_items = <<>> /\ state.total_cost = 0

\* a normal run with three completed stages, no recipe and no items
C34_Witness ==
    /\ pc = "returned"
    /\ exc = "none"
    /\ state.completed_agents = <<"planner", "budgeting", "finalizer">>
    /\ IsNone(state.recipe)
    /\ state.shopping_items = <<>>
    /\ state.total_cost = 0
    /\ CompletionClass(state) = "success"

\* C35: the fitting loop terminates for every item list and every budget,
\* negative ones included: every iteration starts from a non-empty working
\* copy whose total exceeds the budget and removes exactly one item of it,
\* so there are at most len(items) iterations, and the loop ends with a
\* total <= budget or with an empty list.
C35_FittingTerminates ==
    pc = "fitted" =>
        /\ Len(loop_trace) <= Len(prev.shopping_items)
        /\ \A k \in 1..Len(loop_trace) :
              /\ WorkingCopies[k] # <<>>
              /\ SumPrices(WorkingCopies[k]) > prev.budget[1]
              /\ \E i \in 1..Len(WorkingCopies[k]) :
                    loop_trace[k] = RemoveAt(WorkingCopies[k], i)
        /\ LET left == WorkingCopies[Len(WorkingCopies)]
           IN  SumPrices(left) <= prev.budget[1] \/ left = <<>>

\* a negative budget: as many iterations as items, nothing left
C35_Witness ==
    /\ pc = "fitted"
    /\ prev.budget[1] < 0
    /\ Len(prev.shopping_items) = 3
    /\ NonNegativePrices(prev.shopping_items)
    /\ Len(loop_trace) = 3
    /\ loop_trace[3] = <<>>

\* The name with every word that is the keyword in some letter case
\* replaced by the title-cased cheaper word
Renamed(name, expensive, cheaper) ==
    [i \in 1..Len(name) |->
        IF Lower(name[i]) = expensive THEN cheaper ELSE name[i]]

\* What the substitution table promises for one surviving item
Substituted(item, out) ==
    IF NameHas(item.name, "beef")
    THEN out = [item EXCEPT !.estimated_price = BeefPrice,
                            !.name = Renamed(@, "beef", "Chicken")]
    ELSE IF NameHas(item.name, "organic")
    THEN out = [item EXCEPT !.estimated_price = Discount(@, 7),
                            !.name = Renamed(@, "organic", "Regular")]
    ELSE IF NameHas(item.name, "premium")
    THEN out = [item EXCEPT !.estimated_price = Discount(@, 8),
                            !.name = Renamed(@, "premium", "Standard")]
    ELSE out = item

\* C36: when the list costs more than the budget, the stored items are the
\* survivors of the removal loop, one for one; a survivor whose name contains beef, organic
\* or premium in any letter case has both its price and its name rewritten
\* by the first matching rule (beef, then organic, then premium), and a
\* survivor matching no keyword is unchanged.
C36_SurvivorsSubstituted ==
    (pc = "fitted" /\ OverBudget(prev.total_cost, prev.budget[1])) =>
        LET left == WorkingCopies[Len(WorkingCopies)]
        IN  /\ Len(state.shopping_items) = Len(left)
            /\ \A i \in 1..Len(left) :
                  Substituted(left[i], state.shopping_items[i])

\* The values line 63 of supervisor_agent.py accepts
NextAgentNames == Range(agent_sequence) \cup {"complete", "error"}

\* C37: next_agent is one of planner, recipe, product_finder, budgeting,
\* finalizer, complete, error in every reachable state of a run and after
\* SupervisorAgent.execute, whatever the Generator answers and whether or
\* not it fails.
C37_NextAgentInVocabulary == state.next_agent \in NextAgentNames

\* the supervisor has asked the Generator, got an answer naming no stage,
\* and has written the next stage in sequence
C37_Witness ==
    /\ pc = "supervised"
    /\ calls = <<LLMCall(LLMText(<<"I", "cannot", "decide">>))>>
    /\ prev.completed_agents = <<"planner", "recipe">>
    /\ state.next_agent = "product_finder"
    /\ state.next_agent # prev.next_agent

====
